---- MODULE Spec2Model ----
(***************************************************************************)
(* BIAY-Bot: the Plan Parser (generate_json.py) and the Daily Announcer    *)
(* (biay_bot.py).                                                          *)
(*                                                                         *)
(* Python strings are sequences of characters, so that strip, split,       *)
(* lower, int and the colon split are computed character by character.  A  *)
(* printable ASCII character, the tab and the newline are written as the   *)
(* string of that character; every other character is written by its code  *)
(* point, "U+00A0" for the no-break space.  Python values that may be a    *)
(* dict, a str or None carry a type tag t.  A call that may raise returns  *)
(* Ok(v) or Raise(e).                                                      *)
(***************************************************************************)
EXTENDS Integers, Sequences, FiniteSets, TLC

\* ------------------------------------------------------------------------
\* Bounds of the model
\* ------------------------------------------------------------------------
MaxLines == 3

MaxReady == 2

MaxDays == 2

MaxEdits == 1

\* ------------------------------------------------------------------------
\* Python values and exceptions
\* ------------------------------------------------------------------------
Ok(v) == [ok |-> TRUE, val |-> v]

Raise(e) == [ok |-> FALSE, exc |-> e]

None == [t |-> "None"]

Str(s) == [t |-> "str", s |-> s]

Dict(b, c, v) == [t |-> "dict", book |-> b, chapters |-> c, verses |-> v]

\* bool(v) of a value: None is falsy, "" is falsy, a non-empty dict is truthy
Truthy(v) == IF v.t = "None" THEN FALSE ELSE IF v.t = "str" THEN v.s # <<>> ELSE TRUE

\* ------------------------------------------------------------------------
\* str methods used by the parser
\* ------------------------------------------------------------------------
\* the characters str.strip() removes and str.split() separates at: those
\* str.isspace() holds for
Whitespace ==
    { "\t", "\n", "U+000B", "U+000C", "U+000D", "U+001C", "U+001D", "U+001E",
      "U+001F", " ", "U+0085", "U+00A0", "U+1680", "U+2000", "U+2001", "U+2002",
      "U+2003", "U+2004", "U+2005", "U+2006", "U+2007", "U+2008", "U+2009", "U+200A",
      "U+2028", "U+2029", "U+202F", "U+205F", "U+3000" }

UpperLetters == <<"A", "B", "C", "D", "E", "F", "G", "H", "I", "J", "K", "L", "M", "N", "O", "P", "Q", "R", "S", "T", "U", "V", "W", "X", "Y", "Z">>

LowerLetters == <<"a", "b", "c", "d", "e", "f", "g", "h", "i", "j", "k", "l", "m", "n", "o", "p", "q", "r", "s", "t", "u", "v", "w", "x", "y", "z">>

Digits == <<"0", "1", "2", "3", "4", "5", "6", "7", "8", "9">>

\* str.lower() of one character.  The parser compares the result only with
\* 'day' and the four poem book names: no character outside A-Z has a
\* lowercase form among the letters of these words, so a character outside
\* A-Z is kept as it is.
LowerChar(c) ==
    IF \E i \in 1..26 : UpperLetters[i] = c
    THEN LowerLetters[CHOOSE i \in 1..26 : UpperLetters[i] = c]
    ELSE c

lower(s) == [i \in 1..Len(s) |-> LowerChar(s[i])]

RECURSIVE lstrip(_)
lstrip(s) == IF s # <<>> /\ Head(s) \in Whitespace THEN lstrip(Tail(s)) ELSE s

RECURSIVE rstrip(_)
rstrip(s) ==
    IF s # <<>> /\ s[Len(s)] \in Whitespace
    THEN rstrip(SubSeq(s, 1, Len(s) - 1))
    ELSE s

strip(s) == rstrip(lstrip(s))

\* str.split(): split on runs of whitespace, no empty tokens
RECURSIVE SplitWs(_, _, _)
SplitWs(s, cur, acc) ==
    IF s = <<>>
    THEN IF cur = <<>> THEN acc ELSE Append(acc, cur)
    ELSE IF Head(s) \in Whitespace
         THEN SplitWs(Tail(s), <<>>, IF cur = <<>> THEN acc ELSE Append(acc, cur))
         ELSE SplitWs(Tail(s), Append(cur, Head(s)), acc)

split(s) == SplitWs(s, <<>>, <<>>)

\* str.split(sep): split at every occurrence of sep, empty fields kept
RECURSIVE SplitSep(_, _, _, _)
SplitSep(s, sep, cur, acc) ==
    IF s = <<>>
    THEN Append(acc, cur)
    ELSE IF Head(s) = sep
         THEN SplitSep(Tail(s), sep, <<>>, Append(acc, cur))
         ELSE SplitSep(Tail(s), sep, Append(cur, Head(s)), acc)

split_on(s, sep) == SplitSep(s, sep, <<>>, <<>>)

Contains(s, c) == \E i \in 1..Len(s) : s[i] = c

\* the decimal digits int() accepts: the digits 0 to 9 of every script, a
\* row of ten consecutive code points each
DecimalDigits == <<
    <<"0", "1", "2", "3", "4", "5", "6", "7", "8", "9">>,
    <<"U+0660", "U+0661", "U+0662", "U+0663", "U+0664", "U+0665", "U+0666", "U+0667", "U+0668", "U+0669">>,
    <<"U+06F0", "U+06F1", "U+06F2", "U+06F3", "U+06F4", "U+06F5", "U+06F6", "U+06F7", "U+06F8", "U+06F9">>,
    <<"U+07C0", "U+07C1", "U+07C2", "U+07C3", "U+07C4", "U+07C5", "U+07C6", "U+07C7", "U+07C8", "U+07C9">>,
    <<"U+0966", "U+0967", "U+0968", "U+0969", "U+096A", "U+096B", "U+096C", "U+096D", "U+096E", "U+096F">>,
    <<"U+09E6", "U+09E7", "U+09E8", "U+09E9", "U+09EA", "U+09EB", "U+09EC", "U+09ED", "U+09EE", "U+09EF">>,
    <<"U+0A66", "U+0A67", "U+0A68", "U+0A69", "U+0A6A", "U+0A6B", "U+0A6C", "U+0A6D", "U+0A6E", "U+0A6F">>,
    <<"U+0AE6", "U+0AE7", "U+0AE8", "U+0AE9", "U+0AEA", "U+0AEB", "U+0AEC", "U+0AED", "U+0AEE", "U+0AEF">>,
    <<"U+0B66", "U+0B67", "U+0B68", "U+0B69", "U+0B6A", "U+0B6B", "U+0B6C", "U+0B6D", "U+0B6E", "U+0B6F">>,
    <<"U+0BE6", "U+0BE7", "U+0BE8", "U+0BE9", "U+0BEA", "U+0BEB", "U+0BEC", "U+0BED", "U+0BEE", "U+0BEF">>,
    <<"U+0C66", "U+0C67", "U+0C68", "U+0C69", "U+0C6A", "U+0C6B", "U+0C6C", "U+0C6D", "U+0C6E", "U+0C6F">>,
    <<"U+0CE6", "U+0CE7", "U+0CE8", "U+0CE9", "U+0CEA", "U+0CEB", "U+0CEC", "U+0CED", "U+0CEE", "U+0CEF">>,
    <<"U+0D66", "U+0D67", "U+0D68", "U+0D69", "U+0D6A", "U+0D6B", "U+0D6C", "U+0D6D", "U+0D6E", "U+0D6F">>,
    <<"U+0DE6", "U+0DE7", "U+0DE8", "U+0DE9", "U+0DEA", "U+0DEB", "U+0DEC", "U+0DED", "U+0DEE", "U+0DEF">>,
    <<"U+0E50", "U+0E51", "U+0E52", "U+0E53", "U+0E54", "U+0E55", "U+0E56", "U+0E57", "U+0E58", "U+0E59">>,
    <<"U+0ED0", "U+0ED1", "U+0ED2", "U+0ED3", "U+0ED4", "U+0ED5", "U+0ED6", "U+0ED7", "U+0ED8", "U+0ED9">>,
    <<"U+0F20", "U+0F21", "U+0F22", "U+0F23", "U+0F24", "U+0F25", "U+0F26", "U+0F27", "U+0F28", "U+0F29">>,
    <<"U+1040", "U+1041", "U+1042", "U+1043", "U+1044", "U+1045", "U+1046", "U+1047", "U+1048", "U+1049">>,
    <<"U+1090", "U+1091", "U+1092", "U+1093", "U+1094", "U+1095", "U+1096", "U+1097", "U+1098", "U+1099">>,
    <<"U+17E0", "U+17E1", "U+17E2", "U+17E3", "U+17E4", "U+17E5", "U+17E6", "U+17E7", "U+17E8", "U+17E9">>,
    <<"U+1810", "U+1811", "U+1812", "U+1813", "U+1814", "U+1815", "U+1816", "U+1817", "U+1818", "U+1819">>,
    <<"U+1946", "U+1947", "U+1948", "U+1949", "U+194A", "U+194B", "U+194C", "U+194D", "U+194E", "U+194F">>,
    <<"U+19D0", "U+19D1", "U+19D2", "U+19D3", "U+19D4", "U+19D5", "U+19D6", "U+19D7", "U+19D8", "U+19D9">>,
    <<"U+1A80", "U+1A81", "U+1A82", "U+1A83", "U+1A84", "U+1A85", "U+1A86", "U+1A87", "U+1A88", "U+1A89">>,
    <<"U+1A90", "U+1A91", "U+1A92", "U+1A93", "U+1A94", "U+1A95", "U+1A96", "U+1A97", "U+1A98", "U+1A99">>,
    <<"U+1B50", "U+1B51", "U+1B52", "U+1B53", "U+1B54", "U+1B55", "U+1B56", "U+1B57", "U+1B58", "U+1B59">>,
    <<"U+1BB0", "U+1BB1", "U+1BB2", "U+1BB3", "U+1BB4", "U+1BB5", "U+1BB6", "U+1BB7", "U+1BB8", "U+1BB9">>,
    <<"U+1C40", "U+1C41", "U+1C42", "U+1C43", "U+1C44", "U+1C45", "U+1C46", "U+1C47", "U+1C48", "U+1C49">>,
    <<"U+1C50", "U+1C51", "U+1C52", "U+1C53", "U+1C54", "U+1C55", "U+1C56", "U+1C57", "U+1C58", "U+1C59">>,
    <<"U+A620", "U+A621", "U+A622", "U+A623", "U+A624", "U+A625", "U+A626", "U+A627", "U+A628", "U+A629">>,
    <<"U+A8D0", "U+A8D1", "U+A8D2", "U+A8D3", "U+A8D4", "U+A8D5", "U+A8D6", "U+A8D7", "U+A8D8", "U+A8D9">>,
    <<"U+A900", "U+A901", "U+A902", "U+A903", "U+A904", "U+A905", "U+A906", "U+A907", "U+A908", "U+A909">>,
    <<"U+A9D0", "U+A9D1", "U+A9D2", "U+A9D3", "U+A9D4", "U+A9D5", "U+A9D6", "U+A9D7", "U+A9D8", "U+A9D9">>,
    <<"U+A9F0", "U+A9F1", "U+A9F2", "U+A9F3", "U+A9F4", "U+A9F5", "U+A9F6", "U+A9F7", "U+A9F8", "U+A9F9">>,
    <<"U+AA50", "U+AA51", "U+AA52", "U+AA53", "U+AA54", "U+AA55", "U+AA56", "U+AA57", "U+AA58", "U+AA59">>,
    <<"U+ABF0", "U+ABF1", "U+ABF2", "U+ABF3", "U+ABF4", "U+ABF5", "U+ABF6", "U+ABF7", "U+ABF8", "U+ABF9">>,
    <<"U+FF10", "U+FF11", "U+FF12", "U+FF13", "U+FF14", "U+FF15", "U+FF16", "U+FF17", "U+FF18", "U+FF19">>,
    <<"U+104A0", "U+104A1", "U+104A2", "U+104A3", "U+104A4", "U+104A5", "U+104A6", "U+104A7", "U+104A8", "U+104A9">>,
    <<"U+10D30", "U+10D31", "U+10D32", "U+10D33", "U+10D34", "U+10D35", "U+10D36", "U+10D37", "U+10D38", "U+10D39">>,
    <<"U+11066", "U+11067", "U+11068", "U+11069", "U+1106A", "U+1106B", "U+1106C", "U+1106D", "U+1106E", "U+1106F">>,
    <<"U+110F0", "U+110F1", "U+110F2", "U+110F3", "U+110F4", "U+110F5", "U+110F6", "U+110F7", "U+110F8", "U+110F9">>,
    <<"U+11136", "U+11137", "U+11138", "U+11139", "U+1113A", "U+1113B", "U+1113C", "U+1113D", "U+1113E", "U+1113F">>,
    <<"U+111D0", "U+111D1", "U+111D2", "U+111D3", "U+111D4", "U+111D5", "U+111D6", "U+111D7", "U+111D8", "U+111D9">>,
    <<"U+112F0", "U+112F1", "U+112F2", "U+112F3", "U+112F4", "U+112F5", "U+112F6", "U+112F7", "U+112F8", "U+112F9">>,
    <<"U+11450", "U+11451", "U+11452", "U+11453", "U+11454", "U+11455", "U+11456", "U+11457", "U+11458", "U+11459">>,
    <<"U+114D0", "U+114D1", "U+114D2", "U+114D3", "U+114D4", "U+114D5", "U+114D6", "U+114D7", "U+114D8", "U+114D9">>,
    <<"U+11650", "U+11651", "U+11652", "U+11653", "U+11654", "U+11655", "U+11656", "U+11657", "U+11658", "U+11659">>,
    <<"U+116C0", "U+116C1", "U+116C2", "U+116C3", "U+116C4", "U+116C5", "U+116C6", "U+116C7", "U+116C8", "U+116C9">>,
    <<"U+11730", "U+11731", "U+11732", "U+11733", "U+11734", "U+11735", "U+11736", "U+11737", "U+11738", "U+11739">>,
    <<"U+118E0", "U+118E1", "U+118E2", "U+118E3", "U+118E4", "U+118E5", "U+118E6", "U+118E7", "U+118E8", "U+118E9">>,
    <<"U+11950", "U+11951", "U+11952", "U+11953", "U+11954", "U+11955", "U+11956", "U+11957", "U+11958", "U+11959">>,
    <<"U+11C50", "U+11C51", "U+11C52", "U+11C53", "U+11C54", "U+11C55", "U+11C56", "U+11C57", "U+11C58", "U+11C59">>,
    <<"U+11D50", "U+11D51", "U+11D52", "U+11D53", "U+11D54", "U+11D55", "U+11D56", "U+11D57", "U+11D58", "U+11D59">>,
    <<"U+11DA0", "U+11DA1", "U+11DA2", "U+11DA3", "U+11DA4", "U+11DA5", "U+11DA6", "U+11DA7", "U+11DA8", "U+11DA9">>,
    <<"U+16A60", "U+16A61", "U+16A62", "U+16A63", "U+16A64", "U+16A65", "U+16A66", "U+16A67", "U+16A68", "U+16A69">>,
    <<"U+16AC0", "U+16AC1", "U+16AC2", "U+16AC3", "U+16AC4", "U+16AC5", "U+16AC6", "U+16AC7", "U+16AC8", "U+16AC9">>,
    <<"U+16B50", "U+16B51", "U+16B52", "U+16B53", "U+16B54", "U+16B55", "U+16B56", "U+16B57", "U+16B58", "U+16B59">>,
    <<"U+1D7CE", "U+1D7CF", "U+1D7D0", "U+1D7D1", "U+1D7D2", "U+1D7D3", "U+1D7D4", "U+1D7D5", "U+1D7D6", "U+1D7D7">>,
    <<"U+1D7D8", "U+1D7D9", "U+1D7DA", "U+1D7DB", "U+1D7DC", "U+1D7DD", "U+1D7DE", "U+1D7DF", "U+1D7E0", "U+1D7E1">>,
    <<"U+1D7E2", "U+1D7E3", "U+1D7E4", "U+1D7E5", "U+1D7E6", "U+1D7E7", "U+1D7E8", "U+1D7E9", "U+1D7EA", "U+1D7EB">>,
    <<"U+1D7EC", "U+1D7ED", "U+1D7EE", "U+1D7EF", "U+1D7F0", "U+1D7F1", "U+1D7F2", "U+1D7F3", "U+1D7F4", "U+1D7F5">>,
    <<"U+1D7F6", "U+1D7F7", "U+1D7F8", "U+1D7F9", "U+1D7FA", "U+1D7FB", "U+1D7FC", "U+1D7FD", "U+1D7FE", "U+1D7FF">>,
    <<"U+1E140", "U+1E141", "U+1E142", "U+1E143", "U+1E144", "U+1E145", "U+1E146", "U+1E147", "U+1E148", "U+1E149">>,
    <<"U+1E2F0", "U+1E2F1", "U+1E2F2", "U+1E2F3", "U+1E2F4", "U+1E2F5", "U+1E2F6", "U+1E2F7", "U+1E2F8", "U+1E2F9">>,
    <<"U+1E950", "U+1E951", "U+1E952", "U+1E953", "U+1E954", "U+1E955", "U+1E956", "U+1E957", "U+1E958", "U+1E959">>,
    <<"U+1FBF0", "U+1FBF1", "U+1FBF2", "U+1FBF3", "U+1FBF4", "U+1FBF5", "U+1FBF6", "U+1FBF7", "U+1FBF8", "U+1FBF9">>
    >>

\* the row of the script c is a digit of, 0 when c is no digit
DigitRow(c) ==
    IF \E i \in 1..10 : Digits[i] = c THEN 1
    ELSE IF \E r \in 2..Len(DecimalDigits) : \E i \in 1..10 : DecimalDigits[r][i] = c
    THEN CHOOSE r \in 2..Len(DecimalDigits) : \E i \in 1..10 : DecimalDigits[r][i] = c
    ELSE 0

IsDigit(c) == DigitRow(c) # 0

DigitVal(c) == (CHOOSE i \in 1..10 : DecimalDigits[DigitRow(c)][i] = c) - 1

\* sys.get_int_max_str_digits(): the longest literal int() converts
MaxStrDigits == 4300

\* the number of digits of a literal, underscores not counted
RECURSIVE DigitCount(_)
DigitCount(s) ==
    IF s = <<>> THEN 0
    ELSE (IF Head(s) = "_" THEN 0 ELSE 1) + DigitCount(Tail(s))

\* the digits of an int literal: digits, single underscores only between digits
IntBody(s) ==
    /\ s # <<>>
    /\ IsDigit(s[1])
    /\ IsDigit(s[Len(s)])
    /\ \A i \in 1..Len(s) : IsDigit(s[i]) \/ s[i] = "_"
    /\ \A i \in 1..(Len(s) - 1) : ~(s[i] = "_" /\ s[i + 1] = "_")

RECURSIVE DigitsVal(_, _)
DigitsVal(s, acc) ==
    IF s = <<>> THEN acc
    ELSE IF Head(s) = "_" THEN DigitsVal(Tail(s), acc)
         ELSE DigitsVal(Tail(s), 10 * acc + DigitVal(Head(s)))

\* the whitespace int() skips around the literal: the whitespace of
\* str.strip but for U+001C to U+001F, which int() rejects
IntWhitespace == Whitespace \ {"U+001C", "U+001D", "U+001E", "U+001F"}

RECURSIVE int_lstrip(_)
int_lstrip(s) == IF s # <<>> /\ Head(s) \in IntWhitespace THEN int_lstrip(Tail(s)) ELSE s

RECURSIVE int_rstrip(_)
int_rstrip(s) ==
    IF s # <<>> /\ s[Len(s)] \in IntWhitespace
    THEN int_rstrip(SubSeq(s, 1, Len(s) - 1))
    ELSE s

\* int(s) of a str: optional sign, then the digits; ValueError otherwise,
\* and for a literal of more than MaxStrDigits digits
int(s) ==
    LET t == int_rstrip(int_lstrip(s))
        signed == t # <<>> /\ Head(t) \in {"+", "-"}
        body == IF signed THEN Tail(t) ELSE t
    IN  IF IntBody(body) /\ DigitCount(body) <= MaxStrDigits
        THEN Ok(IF signed /\ Head(t) = "-" THEN 0 - DigitsVal(body, 0) ELSE DigitsVal(body, 0))
        ELSE Raise("ValueError")

\* parts[i] with a 0-based index: IndexError past the end
Item(parts, i) == IF i < Len(parts) THEN Ok(parts[i + 1]) ELSE Raise("IndexError")

\* ------------------------------------------------------------------------
\* generate_json.py
\* ------------------------------------------------------------------------
all_text == <<"a", "l", "l">>

none_text == <<"n", "o", "n", "e">>

day_text == <<"d", "a", "y">>

PoemBooks == { <<"p", "s", "a", "l", "m">>, <<"p", "s", "a", "l", "m", "s">>, <<"p", "r", "o", "v", "e", "r", "b">>, <<"p", "r", "o", "v", "e", "r", "b", "s">> }

parse_scripture_reference(reference) ==
    IF Contains(reference, ":")
    THEN LET fields == split_on(reference, ":")
         IN  IF Len(fields) = 2
             THEN Ok([chapters |-> fields[1], verses |-> fields[2]])
             ELSE Raise("ValueError")
    ELSE Ok([chapters |-> reference, verses |-> all_text])

create_reading(book, reference) ==
    LET reference_data == parse_scripture_reference(reference)
    IN  IF reference_data.ok
        THEN Ok(Dict(book, reference_data.val.chapters, reference_data.val.verses))
        ELSE reference_data

\* create_reading(parts[i], parts[j]): both subscripts are evaluated first
ReadingAt(parts, i, j) ==
    IF ~Item(parts, i).ok THEN Item(parts, i)
    ELSE IF ~Item(parts, j).ok THEN Item(parts, j)
    ELSE create_reading(Item(parts, i).val, Item(parts, j).val)

\* the book token compared as it is written
is_poem_book_exact(token) == token \in PoemBooks

\* line 73: parts[i].lower() in ['psalm', 'psalms', 'proverb', 'proverbs']
is_poem_book(token) == lower(token) \in PoemBooks

\* lines 72-79: the second pair and the third pair, as [second_reading, poem]
SecondAndPoem(parts) ==
    LET i == 4
    IN  IF ~(i < Len(parts))
        THEN Ok([second_reading |-> None, poem |-> None])
        ELSE IF is_poem_book(parts[i + 1])
        THEN LET p == ReadingAt(parts, i, i + 1)
             IN  IF p.ok THEN Ok([second_reading |-> None, poem |-> p.val]) ELSE p
        ELSE LET s == ReadingAt(parts, i, i + 1)
             IN  IF ~s.ok THEN s
                 ELSE IF i + 2 < Len(parts)
                 THEN LET p == ReadingAt(parts, i + 2, i + 3)
                      IN  IF p.ok THEN Ok([second_reading |-> s.val, poem |-> p.val]) ELSE p
                 ELSE Ok([second_reading |-> s.val, poem |-> None])

\* the sentinel forgotten: second_reading is stored as it is
second_unset(second_reading) == second_reading

\* line 85: second_reading if second_reading else "none"
second_or_none(second_reading) ==
    IF Truthy(second_reading) THEN second_reading ELSE Str(none_text)

\* first_reading is left as it was initialised
FirstReadingUnset(parts) == Ok(None)

\* lines 60, 64-69: first_reading, None unless a token follows "Day X"
FirstReading(parts) ==
    IF 2 < Len(parts) THEN ReadingAt(parts, 2, 3) ELSE Ok(None)

\* lines 57-87: the try body after the length check, as the day_data built
DayData(parts, current_period) ==
    LET day_number == int(parts[2])
        first_reading == FirstReading(parts)
        rest == SecondAndPoem(parts)
    IN  IF ~day_number.ok THEN day_number
        ELSE IF ~first_reading.ok THEN first_reading
        ELSE IF ~rest.ok THEN rest
        ELSE Ok([day |-> day_number.val,
                 period |-> current_period,
                 first_reading |-> first_reading.val,
                 second_reading |-> second_or_none(rest.val.second_reading),
                 poem |-> rest.val.poem])

\* the period is the first word of the header only
header_first_word(line) == split(line)[1]

\* line 47: current_period = line.strip()
header_period(line) == strip(line)

\* lines 35-94: one iteration of the loop over the lines.  kind tells which
\* branch the line took; period is current_period after the iteration.
ProcessLine(raw, current_period) ==
    LET line == strip(raw)
        parts == split(line)
    IN  IF line = <<>> \/ parts = <<>>
        THEN [kind |-> "blank", period |-> current_period, rec |-> None, exc |-> "none"]
        ELSE IF lower(parts[1]) # day_text
        THEN [kind |-> "header", period |-> header_period(line), rec |-> None, exc |-> "none"]
        ELSE IF Len(parts) < 4
        THEN [kind |-> "short", period |-> current_period, rec |-> None, exc |-> "none"]
        ELSE LET d == DayData(parts, current_period)
             IN  IF d.ok
                 THEN [kind |-> "record", period |-> current_period, rec |-> d.val, exc |-> "none"]
                 ELSE [kind |-> "error", period |-> current_period, rec |-> None, exc |-> d.exc]

\* lines 31-97: the loop from line k on, carrying result and current_period
RECURSIVE ParseFrom(_, _, _, _)
ParseFrom(lines, k, result, current_period) ==
    IF k > Len(lines) THEN result
    ELSE LET r == ProcessLine(lines[k], current_period)
         IN  ParseFrom(lines, k + 1,
                       IF r.kind = "record" THEN Append(result, r.rec) ELSE result,
                       r.period)

parse_text_to_json(lines) == ParseFrom(lines, 1, <<>>, <<>>)

\* ------------------------------------------------------------------------
\* Dates: datetime.now(tz) as [year, month, day], timetuple().tm_yday, strftime
\* ------------------------------------------------------------------------
IsLeap(y) == y % 4 = 0 /\ (y % 100 # 0 \/ y % 400 = 0)

DaysInMonth(y, m) ==
    IF m = 2 THEN (IF IsLeap(y) THEN 29 ELSE 28)
    ELSE IF m \in {4, 6, 9, 11} THEN 30 ELSE 31

RECURSIVE DaysBefore(_, _)
DaysBefore(y, m) == IF m = 1 THEN 0 ELSE DaysBefore(y, m - 1) + DaysInMonth(y, m - 1)

\* the days of the year counted from 0
tm_yday_from_zero(date) == DaysBefore(date.year, date.month) + date.day - 1

tm_yday(date) == DaysBefore(date.year, date.month) + date.day

NextDate(d) ==
    IF d.day < DaysInMonth(d.year, d.month) THEN [d EXCEPT !.day = d.day + 1]
    ELSE IF d.month < 12 THEN [year |-> d.year, month |-> d.month + 1, day |-> 1]
    ELSE [year |-> d.year + 1, month |-> 1, day |-> 1]

MonthNames == <<
    <<"J", "a", "n", "u", "a", "r", "y">>,
    <<"F", "e", "b", "r", "u", "a", "r", "y">>,
    <<"M", "a", "r", "c", "h">>,
    <<"A", "p", "r", "i", "l">>,
    <<"M", "a", "y">>,
    <<"J", "u", "n", "e">>,
    <<"J", "u", "l", "y">>,
    <<"A", "u", "g", "u", "s", "t">>,
    <<"S", "e", "p", "t", "e", "m", "b", "e", "r">>,
    <<"O", "c", "t", "o", "b", "e", "r">>,
    <<"N", "o", "v", "e", "m", "b", "e", "r">>,
    <<"D", "e", "c", "e", "m", "b", "e", "r">>
    >>

\* %d: day of the month, zero-padded to two digits
TwoDigits(n) == <<Digits[(n \div 10) + 1], Digits[(n % 10) + 1]>>

\* date.strftime('%B %d')
strftime(date) == MonthNames[date.month] \o <<" ">> \o TwoDigits(date.day)

RECURSIVE NatDigits(_)
NatDigits(n) ==
    IF n < 10 THEN <<Digits[n + 1]>>
    ELSE NatDigits(n \div 10) \o <<Digits[(n % 10) + 1]>>

\* str(n) of an int, as the f-string formats entry['day']
str_int(n) == IF n < 0 THEN <<"-">> \o NatDigits(0 - n) ELSE NatDigits(n)

\* ------------------------------------------------------------------------
\* biay_bot.py: format_daily_message
\* ------------------------------------------------------------------------
\* v[key] of a value loaded from JSON: None is not subscriptable
Subscript(v, key) == IF v.t = "dict" THEN Ok(v[key]) ELSE Raise("TypeError")

\* "\n".join(items): every item has to be a str
RECURSIVE JoinFrom(_, _)
JoinFrom(items, i) ==
    IF i > Len(items) THEN <<>>
    ELSE IF i = Len(items) THEN items[i].s
    ELSE items[i].s \o <<"\n">> \o JoinFrom(items, i + 1)

join(items) ==
    IF \E i \in 1..Len(items) : items[i].t # "str"
    THEN Raise("TypeError")
    ELSE Ok(JoinFrom(items, 1))

format_daily_message(entry, date) ==
    LET fbook == Subscript(entry.first_reading, "book")
        fchapters == Subscript(entry.first_reading, "chapters")
        pbook == Subscript(entry.poem, "book")
        pchapters == Subscript(entry.poem, "chapters")
    IN  IF ~fbook.ok THEN fbook
        ELSE IF ~fchapters.ok THEN fchapters
        ELSE LET head == <<
                     Str(<<"#", " ", "B", "i", "b", "l", "e", " ", "i", "n", " ", "a", " ", "Y", "e", "a", "r", " ", "D", "a", "y", " ">> \o str_int(entry.day)
                         \o <<" ", "(">> \o strftime(date) \o <<")", " ">> \o entry.period),
                     Str(<<>>),
                     Str(<<"#", "#", " ", "R", "e", "a", "d", "i", "n", "g", "s">>),
                     Str(<<>>),
                     Str(<<"#", "#", "#", " ", "F", "i", "r", "s", "t", " ", "R", "e", "a", "d", "i", "n", "g">>),
                     Str(fbook.val \o <<" ", "C", "h", "a", "p", "t", "e", "r", "(", "s", ")", " ">> \o fchapters.val) >>
                 second == IF entry.second_reading # Str(none_text)
                           THEN << Str(<<>>),
                                   Str(<<"#", "#", "#", " ", "S", "e", "c", "o", "n", "d", " ", "R", "e", "a", "d", "i", "n", "g">>),
                                   entry.second_reading >>
                           ELSE <<>>
             IN  IF ~pbook.ok THEN pbook
                 ELSE IF ~pchapters.ok THEN pchapters
                 ELSE join(head \o second \o << Str(<<>>),
                                               Str(<<"#", "#", "#", " ", "P", "o", "e", "m">>),
                                               Str(pbook.val \o <<" ">> \o pchapters.val) >>)

\* ------------------------------------------------------------------------
\* biay_bot.py: load_config, load_bible_data, send_bible_message
\* ------------------------------------------------------------------------
RequiredFields == <<"token", "channel_id", "timezone", "json_file_path">>

\* load_config: FileNotFoundError re-raised, JSONDecodeError turned into
\* ValueError, KeyError for the first required field that is missing
load_config(cfg) ==
    IF cfg.status = "missing" THEN Raise("FileNotFoundError")
    ELSE IF cfg.status = "malformed" THEN Raise("ValueError")
    ELSE IF \E i \in 1..Len(RequiredFields) : RequiredFields[i] \notin cfg.fields
    THEN Raise("KeyError")
    ELSE Ok(cfg)

\* a record of the logger
Log(level, event) == [level |-> level, event |-> event]

\* load_bible_data: the JSON array of the file, or the error logged and re-raised
load_bible_data(f) ==
    IF f.status = "missing"
    THEN [res |-> Raise("FileNotFoundError"), log |-> <<Log("ERROR", "file_not_found")>>]
    ELSE IF f.status = "malformed"
    THEN [res |-> Raise("JSONDecodeError"), log |-> <<Log("ERROR", "invalid_json")>>]
    ELSE [res |-> Ok(f.data), log |-> <<Log("INFO", "loaded")>>]

\* the loop variable used after the loop: the last entry when none matches
RECURSIVE ScanFallback(_, _, _)
ScanFallback(bible_data, i, day_of_year) ==
    IF i > Len(bible_data) THEN Len(bible_data)
    ELSE IF bible_data[i].day = day_of_year THEN i
    ELSE ScanFallback(bible_data, i + 1, day_of_year)

\* no break: the loop goes on to the last matching entry
ScanLast(bible_data, i, day_of_year) ==
    IF \E j \in i..Len(bible_data) : bible_data[j].day = day_of_year
    THEN CHOOSE j \in i..Len(bible_data) :
             /\ bible_data[j].day = day_of_year
             /\ \A m \in (j + 1)..Len(bible_data) : bible_data[m].day # day_of_year
    ELSE 0

\* lines 102-103: the index of the entry the for loop stops at, 0 when the
\* loop runs to its else clause
RECURSIVE Scan(_, _, _)
Scan(bible_data, i, day_of_year) ==
    IF i > Len(bible_data) THEN 0
    ELSE IF bible_data[i].day = day_of_year THEN i
    ELSE Scan(bible_data, i + 1, day_of_year)

\* the exception classes raised in a firing that derive from Exception
ExceptionSubclasses ==
    {"FileNotFoundError", "JSONDecodeError", "TypeError", "KeyError", "HTTPException"}

\* only the errors of the file are handled
CaughtFileErrors(exc) == exc \in {"FileNotFoundError", "JSONDecodeError"}

\* line 117: except Exception
Caught(exc) == exc \in ExceptionSubclasses

\* The run of the try body is a record: sent, the messages channel.send
\* returned for; handed, the message given to channel.send; formatted, the
\* entries handed to the formatter; match, the entry the loop stopped at
\* (0: none); exc, the exception raised ("none": none); asked, how far the
\* run got in consulting the client ("none", "channel" or "send").
Started(loaded, day_of_year) ==
    [sent |-> <<>>, handed |-> <<>>, formatted |-> <<>>, match |-> 0, exc |-> "none",
     asked |-> "none", loaded |-> loaded.res.ok, day_of_year |-> day_of_year,
     log |-> loaded.log]

\* lines 104-111: the message is formatted and, when get_channel resolves
\* (channel), given to channel.send: the coroutine waits there
Deliver(found, message, channel) ==
    IF ~message.ok THEN [found EXCEPT !.exc = message.exc]
    ELSE IF ~channel
    THEN [found EXCEPT !.asked = "channel", !.log = Append(@, Log("ERROR", "no_channel"))]
    ELSE [found EXCEPT !.asked = "send", !.handed = <<message.val>>]

\* lines 102-115: the for loop stopped at entry i, or ran to its else clause
Select(run, bible_data, i, today, channel) ==
    IF i = 0
    THEN [run EXCEPT !.log = Append(@, Log("WARNING", "no_reading"))]
    ELSE Deliver([run EXCEPT !.match = i, !.formatted = <<i>>],
                 format_daily_message(bible_data[i], today), channel)

\* lines 98-103: the data is loaded and scanned for day_of_year
Loaded(loaded, today, channel) ==
    IF ~loaded.res.ok
    THEN [Started(loaded, tm_yday(today)) EXCEPT !.exc = loaded.res.exc]
    ELSE Select(Started(loaded, tm_yday(today)), loaded.res.val,
                Scan(loaded.res.val, 1, tm_yday(today)), today, channel)

\* lines 98-111: the try body up to the point where it ends or waits for
\* channel.send
TryBody(f, today, channel) ==
    Loaded(load_bible_data(f), today, channel)

\* the run waits at line 111, await channel.send(message)
Awaiting(b) == b.asked = "send" /\ b.exc = "none" /\ b.sent = <<>>

\* lines 111-113: channel.send returns (delivery) or raises
Resumed(b, delivery) ==
    IF delivery
    THEN [b EXCEPT !.sent = b.handed, !.log = Append(@, Log("INFO", "sent"))]
    ELSE [b EXCEPT !.exc = "HTTPException"]

\* line 111: the task is cancelled while it waits; asyncio raises
\* CancelledError, a BaseException, at the await
Cancelled(b) == [b EXCEPT !.exc = "CancelledError"]

\* line 111: the coroutine is closed while it waits; GeneratorExit, a
\* BaseException, is raised at the await
Destroyed(b) == [b EXCEPT !.exc = "GeneratorExit"]

\* lines 117-118: the except clause.  escaped is the exception that leaves
\* the coroutine, "none" when none does.
Handle(b) ==
    IF b.exc = "none" THEN [b EXCEPT !.exc = "none"] @@ [escaped |-> "none"]
    ELSE IF Caught(b.exc)
    THEN [b EXCEPT !.log = Append(@, Log("ERROR", "send_error"))] @@ [escaped |-> "none"]
    ELSE b @@ [escaped |-> b.exc]

\* the run b, once channel.send is over if it waits for it
Finished(b, delivery) ==
    Handle(IF b.asked = "send" /\ b.exc = "none" THEN Resumed(b, delivery) ELSE b)

\* lines 95-118: send_bible_message run from its call to its return
send_bible_message(f, today, channel, delivery) ==
    Finished(TryBody(f, today, channel), delivery)

\* ------------------------------------------------------------------------
\* Plan input: the raw lines f.readlines() may return, and the plans made of them
\* ------------------------------------------------------------------------
\* ' \n'
L_blank ==
    <<" ", "\n">>

\* 'Law  and History\n'
L_header ==
    <<"L", "a", "w", " ", " ", "a", "n", "d", " ", "H", "i", "s", "t", "o", "r", "y", "\n">>

\* '\tdaybreak Gospels \n'
L_header2 ==
    <<"\t", "d", "a", "y", "b", "r", "e", "a", "k", " ", "G", "o", "s", "p", "e", "l", "s", " ", "\n">>

\* 'Day 1 Gen 1:3 Psalm 1\n'
L_first_poem ==
    <<"D", "a", "y", " ", "1", " ", "G", "e", "n", " ", "1", ":", "3", " ", "P", "s", "a", "l", "m", " ", "1", "\n">>

\* 'Day 2 Gen 2\n'
L_first_only ==
    <<"D", "a", "y", " ", "2", " ", "G", "e", "n", " ", "2", "\n">>

\* 'Day  366 Exo 2 Mat 3 Proverbs 4\n'
L_three_pairs ==
    <<"D", "a", "y", " ", " ", "3", "6", "6", " ", "E", "x", "o", " ", "2", " ", "M", "a", "t", " ", "3", " ", "P", "r", "o", "v", "e", "r", "b", "s", " ", "4", "\n">>

\* 'day 2 Exo 2 Mat 3'
L_two_pairs ==
    <<"d", "a", "y", " ", "2", " ", "E", "x", "o", " ", "2", " ", "M", "a", "t", " ", "3">>

\* 'DAY 1 Job 3 PSALMS 2\n'
L_dup_upper ==
    <<"D", "A", "Y", " ", "1", " ", "J", "o", "b", " ", "3", " ", "P", "S", "A", "L", "M", "S", " ", "2", "\n">>

\* 'Day 1 Gen 1 Exo\n'
L_five ==
    <<"D", "a", "y", " ", "1", " ", "G", "e", "n", " ", "1", " ", "E", "x", "o", "\n">>

\* 'Day 2 Gen 1 Mat 2 Psalm\n'
L_seven ==
    <<"D", "a", "y", " ", "2", " ", "G", "e", "n", " ", "1", " ", "M", "a", "t", " ", "2", " ", "P", "s", "a", "l", "m", "\n">>

\* 'Day 60 Gen 1 Proverb 2 x\n'
L_seven_poem ==
    <<"D", "a", "y", " ", "6", "0", " ", "G", "e", "n", " ", "1", " ", "P", "r", "o", "v", "e", "r", "b", " ", "2", " ", "x", "\n">>

\* 'Day 1_0 Gen 1 Mat 2:4 Psalm 3 x\n'
L_nine ==
    <<"D", "a", "y", " ", "1", "_", "0", " ", "G", "e", "n", " ", "1", " ", "M", "a", "t", " ", "2", ":", "4", " ", "P", "s", "a", "l", "m", " ", "3", " ", "x", "\n">>

\* 'Day x Gen 1\n'
L_nonnumeric ==
    <<"D", "a", "y", " ", "x", " ", "G", "e", "n", " ", "1", "\n">>

\* 'Day of Rest\n'
L_rest ==
    <<"D", "a", "y", " ", "o", "f", " ", "R", "e", "s", "t", "\n">>

\* 'Day 2 Gen 1:2:3\n'
L_colons ==
    <<"D", "a", "y", " ", "2", " ", "G", "e", "n", " ", "1", ":", "2", ":", "3", "\n">>

\* 'Day\xa0\u0663 Gen\x0b1\x0c\n': no-break space, ARABIC-INDIC DIGIT THREE,
\* vertical tab, form feed
L_unicode ==
    <<"D", "a", "y", "U+00A0", "U+0663", " ", "G", "e", "n", "U+000B", "1", "U+000C", "\n">>

LineSet ==
    { L_blank, L_header, L_header2, L_first_poem, L_first_only, L_three_pairs, L_two_pairs, L_dup_upper, L_five, L_seven, L_seven_poem, L_nine, L_nonnumeric, L_rest, L_colons, L_unicode }

RECURSIVE SeqsUpTo(_, _)
SeqsUpTo(S, n) ==
    IF n = 0 THEN { <<>> }
    ELSE LET shorter == SeqsUpTo(S, n - 1)
         IN  shorter \cup { Append(p, x) : p \in { q \in shorter : Len(q) = n - 1 }, x \in S }

\* readlines() ends every line but possibly the last with a newline
Readable(p) == \A i \in 1..(Len(p) - 1) : p[i][Len(p[i])] = "\n"

Plans == { p \in SeqsUpTo(LineSet, MaxLines) : Readable(p) }

\* ------------------------------------------------------------------------
\* Announcer inputs: config files, BibleData files, dates
\* ------------------------------------------------------------------------
FullFields == {"token", "channel_id", "timezone", "json_file_path"}

\* config.json: absent, not JSON, or an object with all or all but one of the
\* required keys; timezone_ok: pytz knows the zone; token_ok: the login succeeds
Configs ==
    { [status |-> s, fields |-> {}, timezone_ok |-> TRUE, token_ok |-> TRUE] :
          s \in {"missing", "malformed"} }
    \cup
    { [status |-> "ok", fields |-> fs, timezone_ok |-> z, token_ok |-> a] :
          fs \in {FullFields} \cup { FullFields \ {x} : x \in FullFields },
          z \in BOOLEAN, a \in BOOLEAN }

\* the arrays the parser saves for two plans
DuplicatesData == parse_text_to_json(<<L_header, L_dup_upper, L_first_only, L_first_poem>>)

SecondsData == parse_text_to_json(<<L_header2, L_three_pairs, L_seven_poem, L_two_pairs>>)

\* the BibleData files the disk may hold, by name: absent, not JSON, or one
\* of the two arrays
FileNames == {"absent", "garbled", "duplicates", "seconds"}

\* the content of the file of that name, as it was saved
Saved(name) ==
    CASE name = "absent" -> [status |-> "missing", data |-> <<>>]
      [] name = "garbled" -> [status |-> "malformed", data |-> <<>>]
      [] name = "duplicates" -> [status |-> "ok", data |-> DuplicatesData]
      [] name = "seconds" -> [status |-> "ok", data |-> SecondsData]

\* the local date at which the process starts
StartDates ==
    { [year |-> 2023, month |-> 12, day |-> 31],
      [year |-> 2024, month |-> 12, day |-> 30] }

\* ------------------------------------------------------------------------
\* State
\* ------------------------------------------------------------------------
VARIABLES
    lines,             \* parser: the lines read from the plan file
    k,                 \* parser: index of the next line of the loop
    result,            \* parser: result list
    current_period,    \* parser: current_period
    pkind,             \* parser: branch taken by the last iteration
    output,            \* parser: the value returned, None before the return
    state,             \* bot: Disconnected, Connecting, Ready or Terminated
    config,            \* bot: the config file
    constructed,       \* bot: BibleBot() has returned
    crash,             \* bot: the exception that ended the process uncaught
    ending,            \* bot: "none", "closing" while client.run tears its event
                       \*      loop down, then the way client.run ended
    jobs,              \* bot: number of jobs held by the scheduler
    running,           \* bot: scheduler.start() has been called
    readyCount,        \* bot: number of on_ready callbacks so far
    now,               \* clock: the local date
    days,              \* clock: number of midnights passed
    pending,           \* scheduler: firings due and not yet run
    file,              \* disk: the name of the BibleData file now on disk
    stored,            \* disk: the content of each BibleData file, by name
    edits,             \* disk: number of external edits of the file
    sending,           \* bot: the runs of send_bible_message waiting at line 111
    firings,           \* history: the last two runs of send_bible_message that ended
    log                \* bot: the records logged by run and on_ready

pvars == <<lines, k, result, current_period, pkind, output>>

avars == <<state, config, constructed, crash, ending, jobs, running, readyCount,
           now, days, pending, file, stored, edits, sending, firings, log>>

vars == <<pvars, avars>>

\* the content of the file of that name
Disk(name) == stored[name]

\* the parser before it runs
ParserIdle ==
    /\ lines = <<>>
    /\ k = 1
    /\ result = <<>>
    /\ current_period = <<>>
    /\ pkind = "start"
    /\ output = None

\* the bot before it is constructed
AnnouncerIdle ==
    /\ state = "Disconnected"
    /\ constructed = FALSE
    /\ crash = "none"
    /\ ending = "none"
    /\ jobs = 0
    /\ running = FALSE
    /\ readyCount = 0
    /\ days = 0
    /\ pending = 0
    /\ edits = 0
    /\ sending = <<>>
    /\ firings = <<>>
    /\ log = <<>>

\* ------------------------------------------------------------------------
\* parse_text_to_json as a loop, one iteration per step
\* ------------------------------------------------------------------------
ParserInit ==
    /\ lines \in Plans
    /\ k = 1
    /\ result = <<>>
    /\ current_period = <<>>
    /\ pkind = "start"
    /\ output = None
    /\ AnnouncerIdle
    /\ config = [status |-> "missing", fields |-> {}, timezone_ok |-> TRUE, token_ok |-> TRUE]
    /\ now = [year |-> 2023, month |-> 12, day |-> 31]
    /\ file = "absent"
    /\ stored = <<>>

\* the branch the iteration for lines[k] takes
Branch == ProcessLine(lines[k], current_period)

InLoop == output = None /\ k <= Len(lines)

\* lines 36-44: blank line, continue
SkipBlank ==
    /\ InLoop
    /\ Branch.kind = "blank"
    /\ pkind' = "blank"
    /\ k' = k + 1
    /\ UNCHANGED <<lines, result, current_period, output>>
    /\ UNCHANGED avars

\* lines 46-49: period header, continue
PeriodHeader ==
    /\ InLoop
    /\ Branch.kind = "header"
    /\ current_period' = Branch.period
    /\ pkind' = "header"
    /\ k' = k + 1
    /\ UNCHANGED <<lines, result, output>>
    /\ UNCHANGED avars

\* the skipped line clears the period
SkipMalformedClears ==
    /\ InLoop
    /\ Branch.kind = "short"
    /\ current_period' = <<>>
    /\ pkind' = "short"
    /\ k' = k + 1
    /\ UNCHANGED <<lines, result, output>>
    /\ UNCHANGED avars

\* lines 53-55: day line with fewer than 4 tokens, continue
SkipMalformed ==
    /\ InLoop
    /\ Branch.kind = "short"
    /\ pkind' = "short"
    /\ k' = k + 1
    /\ UNCHANGED <<lines, result, current_period, output>>
    /\ UNCHANGED avars

\* lines 57-90: day line appended to result
AppendDay ==
    /\ InLoop
    /\ Branch.kind = "record"
    /\ result' = Append(result, Branch.rec)
    /\ pkind' = "record"
    /\ k' = k + 1
    /\ UNCHANGED <<lines, current_period, output>>
    /\ UNCHANGED avars

\* the exception leaves parse_text_to_json
DropLineRaises ==
    /\ InLoop
    /\ Branch.kind = "error"
    /\ output' = [t |-> "raised", exc |-> Branch.exc]
    /\ pkind' = "error"
    /\ UNCHANGED <<lines, k, result, current_period>>
    /\ UNCHANGED avars

\* lines 92-94: exception caught, continue
DropLine ==
    /\ InLoop
    /\ Branch.kind = "error"
    /\ pkind' = "error"
    /\ k' = k + 1
    /\ UNCHANGED <<lines, result, current_period, output>>
    /\ UNCHANGED avars

\* line 97: the loop is over, the result is returned
Return ==
    /\ output = None
    /\ k > Len(lines)
    /\ output' = [t |-> "list", items |-> result]
    /\ pkind' = "return"
    /\ UNCHANGED <<lines, k, result, current_period>>
    /\ UNCHANGED avars

ParserNext ==
    \/ SkipBlank
    \/ PeriodHeader
    \/ SkipMalformed
    \/ AppendDay
    \/ DropLine
    \/ Return

ParserSpec == ParserInit /\ [][ParserNext]_vars

\* ------------------------------------------------------------------------
\* The Daily Announcer
\* ------------------------------------------------------------------------
Init ==
    /\ stored = [name \in FileNames |-> Saved(name)]
    /\ ParserIdle
    /\ AnnouncerIdle
    /\ config \in Configs
    /\ now \in StartDates
    /\ file \in FileNames

\* lines 125-133: scheduler.add_job stores one more job
add_job(n) == n + 1

\* the job is added and the scheduler started in the constructor
ConstructAndSchedule ==
    /\ state = "Disconnected"
    /\ ~constructed
    /\ load_config(config).ok
    /\ config.timezone_ok
    /\ constructed' = TRUE
    /\ jobs' = add_job(jobs)
    /\ running' = TRUE
    /\ UNCHANGED <<state, crash, ending, config, readyCount, now, days, pending, file, stored, edits, sending, firings, log>>
    /\ UNCHANGED pvars

\* lines 13-34 and 151: BibleBot().  No exception of the constructor is
\* handled: it ends the process before the logger is configured.
Construct ==
    /\ state = "Disconnected"
    /\ ~constructed
    /\ LET c == load_config(config)
       IN  IF ~c.ok
           THEN crash' = c.exc /\ state' = "Terminated" /\ UNCHANGED constructed
           ELSE IF ~config.timezone_ok
           THEN crash' = "UnknownTimeZoneError" /\ state' = "Terminated" /\ UNCHANGED constructed
           ELSE constructed' = TRUE /\ UNCHANGED <<state, crash>>
    /\ UNCHANGED <<config, ending, jobs, running, readyCount, now, days, pending, file, stored, edits, sending, firings, log>>
    /\ UNCHANGED pvars

\* lines 140-143 and 152: bot.run() calls client.run(token)
RunClient ==
    /\ state = "Disconnected"
    /\ constructed
    /\ state' = "Connecting"
    /\ UNCHANGED <<config, constructed, crash, ending, jobs, running, readyCount, now, days,
                   pending, file, stored, edits, sending, firings, log>>
    /\ UNCHANGED pvars

\* the history keeps the run before and the new run
Latest(history, run) ==
    IF history = <<>> THEN <<run>> ELSE <<history[Len(history)], run>>

\* the run r of send_bible_message that has ended, as it joins the history:
\* w tells when, on which file and in which state it was called; channel and
\* delivery are what the client answered
Ended(w, channel, delivery, r) ==
    [date |-> w.date, disk |-> w.disk, at |-> w.at,
     channel |-> channel, delivery |-> delivery,
     loaded |-> r.loaded, day_of_year |-> r.day_of_year,
     match |-> r.match, formatted |-> r.formatted, handed |-> r.handed,
     sent |-> r.sent, exc |-> r.exc, escaped |-> r.escaped, log |-> r.log]

\* the runs of waiting are cancelled one after the other, each leaving
\* send_bible_message at line 111 with CancelledError
RECURSIVE CancelAll(_, _)
CancelAll(history, waiting) ==
    IF waiting = <<>> THEN history
    ELSE CancelAll(Latest(history, Ended(Head(waiting), TRUE, FALSE,
                                         Handle(Cancelled(Head(waiting).run)))),
                   Tail(waiting))

\* the coroutines of the runs of waiting are closed one after the other,
\* each leaving send_bible_message at line 111 with GeneratorExit
RECURSIVE DestroyAll(_, _)
DestroyAll(history, waiting) ==
    IF waiting = <<>> THEN history
    ELSE DestroyAll(Latest(history, Ended(Head(waiting), TRUE, FALSE,
                                          Handle(Destroyed(Head(waiting).run)))),
                    Tail(waiting))

\* the runs of waiting taken in the order p
Ordered(waiting, p) == [n \in 1..Len(waiting) |-> waiting[p[n]]]

\* line 143: client.run begins to end.  It tears its event loop down: the
\* runs waiting now are cancelled (the loop keeps its tasks in a set and
\* takes them in an order of its own), and the loop goes on running what is
\* due, the scheduler's timer included, until it is closed.
StopClient ==
    /\ state \in {"Connecting", "Ready"}
    /\ ending = "none"
    /\ ending' = "closing"
    /\ \E p \in Permutations(1..Len(sending)) :
           firings' = CancelAll(firings, Ordered(sending, p))
    /\ sending' = <<>>
    /\ UNCHANGED <<state, config, constructed, crash, jobs, running, readyCount, now, days,
                   pending, file, stored, edits, log>>
    /\ UNCHANGED pvars

\* line 143: client.run is over, in the way e, and the process ends.  A run
\* started while the loop was torn down that still waits at line 111 was not
\* cancelled and is never resumed: its coroutine is closed.
Closed(e) ==
    /\ state \in {"Connecting", "Ready"}
    /\ ending = "closing"
    /\ ending' = e
    /\ state' = "Terminated"
    /\ \E p \in Permutations(1..Len(sending)) :
           firings' = DestroyAll(firings, Ordered(sending, p))
    /\ sending' = <<>>

\* the handler of the refused login logs nothing
LoginFailureSilent ==
    /\ state = "Connecting"
    /\ ~config.token_ok
    /\ Closed("LoginFailure")
    /\ UNCHANGED <<config, constructed, crash, jobs, running, readyCount, now, days,
                   pending, file, stored, edits, log>>
    /\ UNCHANGED pvars

\* lines 144-145: the login is refused, client.run raises LoginFailure; run()
\* logs and returns
LoginFailure ==
    /\ state = "Connecting"
    /\ ~config.token_ok
    /\ Closed("LoginFailure")
    /\ log' = Append(log, Log("ERROR", "login_failed"))
    /\ UNCHANGED <<config, constructed, crash, jobs, running, readyCount, now, days,
                   pending, file, stored, edits>>
    /\ UNCHANGED pvars

\* the exceptions that do not derive from Exception and end the process
BaseExceptions == {"KeyboardInterrupt", "SystemExit"}

\* lines 140-143: client.run returns without raising (the client was closed,
\* or the process was interrupted from the keyboard, which the client takes
\* as a request to stop); run() returns with nothing logged and the process
\* ends after line 152
RunReturns ==
    /\ Closed("returns")
    /\ UNCHANGED <<config, constructed, crash, jobs, running, readyCount, now, days,
                   pending, file, stored, edits, log>>
    /\ UNCHANGED pvars

\* lines 140-147: client.run raises an exception that does not derive from
\* Exception; neither handler of run() takes it, it leaves run() and ends the
\* process with nothing logged
RunInterrupted ==
    /\ \E e \in BaseExceptions : crash' = e /\ Closed(e)
    /\ UNCHANGED <<config, constructed, jobs, running, readyCount, now, days,
                   pending, file, stored, edits, log>>
    /\ UNCHANGED pvars

\* lines 146-147: client.run raises any other exception; run() logs and
\* returns
RunError ==
    /\ Closed("Exception")
    /\ log' = Append(log, Log("ERROR", "run_error"))
    /\ UNCHANGED <<config, constructed, crash, jobs, running, readyCount, now, days,
                   pending, file, stored, edits>>
    /\ UNCHANGED pvars

\* lines 120-138: the connection-ready callback, dispatched by a client that
\* is connected, never by one whose run is ending.  The client calls it after
\* the login and again whenever a session has to be re-established.  start()
\* of a running scheduler raises after the job has been added.
on_ready ==
    /\ state \in {"Connecting", "Ready"}
    /\ ending = "none"
    /\ config.token_ok
    /\ readyCount < MaxReady
    /\ readyCount' = readyCount + 1
    /\ log' = Append(log, Log("INFO", "logged_in"))
    /\ jobs' = add_job(jobs)
    /\ running' = TRUE
    /\ state' = "Ready"
    /\ UNCHANGED <<config, constructed, crash, ending, now, days, pending, file, stored, edits, sending, firings>>
    /\ UNCHANGED pvars

\* the clock of a running scheduler passes 00:00:00 local time: every job it
\* holds is due, but for the jobs whose run of the day before still waits
\* (a job runs one instance at a time).  The runs due the day before have
\* been started by then.
Midnight ==
    /\ state # "Terminated"
    /\ running
    /\ days < MaxDays
    /\ pending = 0
    /\ now' = NextDate(now)
    /\ days' = days + 1
    /\ pending' = jobs - Len(sending)
    /\ UNCHANGED <<state, config, constructed, crash, ending, jobs, running, readyCount,
                   file, stored, edits, sending, firings, log>>
    /\ UNCHANGED pvars

\* the data of the first firing is kept and used again
OpenFileCached == IF firings # <<>> THEN Disk(firings[1].disk) ELSE Disk(file)

\* line 58: open(self.json_path) reads the file as it is on disk now
OpenFile == Disk(file)

\* the run b called now has ended or waits at line 111.  An outcome of the
\* client the run never asked for is not a separate input.
Begun(b, channel) ==
    /\ b.asked = "none" => channel
    /\ IF Awaiting(b)
       THEN /\ sending' = Append(sending, [date |-> now, disk |-> file, at |-> state, run |-> b])
            /\ UNCHANGED firings
       ELSE /\ firings' = Latest(firings,
                   Ended([date |-> now, disk |-> file, at |-> state], channel, TRUE, Handle(b)))
            /\ UNCHANGED sending

\* the scheduler runs one due job: send_bible_message, lines 95-111, up to
\* its return or to the await of channel.send
Fire ==
    /\ state # "Terminated"
    /\ pending > 0
    /\ \E channel \in BOOLEAN : Begun(TryBody(OpenFile, now, channel), channel)
    /\ pending' = pending - 1
    /\ UNCHANGED <<state, config, constructed, crash, ending, jobs, running, readyCount,
                   now, days, file, stored, edits, log>>
    /\ UNCHANGED pvars

\* sending without its i-th run
Without(waiting, i) ==
    SubSeq(waiting, 1, i - 1) \o SubSeq(waiting, i + 1, Len(waiting))

\* the waiting run w goes on with the outcome of channel.send
Answered(w, delivery) ==
    firings' = Latest(firings, Ended(w, TRUE, delivery, Handle(Resumed(w.run, delivery))))

\* lines 111-118: channel.send of a waiting run returns or raises, and the
\* run goes on to its end
SendOver ==
    /\ state # "Terminated"
    /\ \E i \in 1..Len(sending) :
          /\ \E delivery \in BOOLEAN : Answered(sending[i], delivery)
          /\ sending' = Without(sending, i)
    /\ UNCHANGED <<state, config, constructed, crash, ending, jobs, running, readyCount,
                   now, days, pending, file, stored, edits, log>>
    /\ UNCHANGED pvars

\* the BibleData file is replaced on disk while the bot runs
EditFile ==
    /\ state # "Terminated"
    /\ edits < MaxEdits
    /\ \E f \in FileNames \ {file} : file' = f
    /\ edits' = edits + 1
    /\ UNCHANGED <<state, config, constructed, crash, ending, jobs, running, readyCount,
                   now, days, pending, stored, sending, firings, log>>
    /\ UNCHANGED pvars

Next ==
    \/ Construct
    \/ RunClient
    \/ StopClient
    \/ LoginFailure
    \/ RunReturns
    \/ RunInterrupted
    \/ RunError
    \/ on_ready
    \/ Midnight
    \/ Fire
    \/ SendOver
    \/ EditFile

Spec == Init /\ [][Next]_vars

\* the process keeps taking its steps
LiveSpec == Spec /\ WF_vars(Next)

\* ------------------------------------------------------------------------
\* Properties of the Daily Announcer
\* ------------------------------------------------------------------------
\* the BibleData the firing f found on disk
DataOf(f) == Disk(f.disk).data

\* the first entry of data whose day is d, 0 when there is none
FirstIndexOf(data, d) ==
    IF \E j \in 1..Len(data) : data[j].day = d
    THEN CHOOSE j \in 1..Len(data) :
             /\ data[j].day = d
             /\ \A m \in 1..(j - 1) : data[m].day # d
    ELSE 0

\* the firing f delivered exactly the message formatted from entry j
DeliveredFrom(f, j) ==
    /\ Len(f.sent) = 1
    /\ format_daily_message(DataOf(f)[j], f.date).ok
    /\ f.sent[1] = format_daily_message(DataOf(f)[j], f.date).val

\* C1: on every firing in Ready where the file loads, a record has
\* day = day_of_year, the channel resolves and the send goes through, exactly
\* one message is delivered, built from that record, whatever the shape of
\* the record.
C1_OneMessagePerMatchedDay ==
    \A i \in 1..Len(firings) :
        LET f == firings[i]
        IN  ( /\ f.at = "Ready"
              /\ Disk(f.disk).status = "ok"
              /\ FirstIndexOf(DataOf(f), tm_yday(f.date)) # 0
              /\ f.channel
              /\ f.delivery )
            => DeliveredFrom(f, FirstIndexOf(DataOf(f), tm_yday(f.date)))

\* C2: the scheduler never holds more than one job, and no date has more
\* than one firing.
C2_SingleDailyJob ==
    /\ jobs <= 1
    /\ \A i, j \in 1..Len(firings) : i # j => firings[i].date # firings[j].date
    /\ pending <= 1

\* the exceptions the event loop raises at the await of a waiting run when
\* the process shuts down
ShutdownExceptions == {"CancelledError", "GeneratorExit"}

\* a firing that met a recoverable error: file missing or malformed, no
\* matching record, channel not resolved, or an exception raised by the
\* formatting or by channel.send
Recoverable(f) ==
    \/ Disk(f.disk).status # "ok"
    \/ FirstIndexOf(DataOf(f), tm_yday(f.date)) = 0
    \/ ~f.channel
    \/ f.exc \notin {"none"} \cup ShutdownExceptions

C3_NoOp ==
    \A i \in 1..Len(firings) :
        Recoverable(firings[i]) => firings[i].sent = <<>> /\ firings[i].escaped = "none"

\* the run that has ended in this step
C3_Ends(f) == firings' # firings /\ f = firings'[Len(firings')]

C3_StaysAlive ==
    \A f \in {firings'[n] : n \in 1..Len(firings')} :
        (C3_Ends(f) /\ Recoverable(f)) =>
            /\ state' = state
            /\ state' = "Ready"
            /\ ending' = ending
            /\ crash' = "none"
            /\ running'
            /\ jobs' = jobs

C3_NextDay ==
    (days' > days /\ \E i \in 1..Len(firings) :
                         firings[i].date = now /\ Recoverable(firings[i])) =>
        /\ state' = "Ready"
        /\ running'
        /\ pending' >= 1

\* C3: a firing that meets a recoverable error (file missing or malformed,
\* channel not resolved, no matching record, an exception raised by the
\* formatting or the sending) sends nothing and lets no exception escape
\* send_bible_message; the step in which it ends leaves the connection and
\* the scheduler with its jobs as they were; and at the next midnight a
\* firing is due again.
C3_RecoverableErrorsAreNoOps ==
    /\ []C3_NoOp
    /\ [][C3_StaysAlive]_vars
    /\ [][C3_NextDay]_vars

\* C3 witness: a firing failed with an exception raised by the formatting or
\* the sending, and a firing of a later date delivered a message.
C3_Witness ==
    \E i, j \in 1..Len(firings) :
        /\ i < j
        /\ firings[i].exc \notin {"none"} \cup ShutdownExceptions
        /\ firings[i].date # firings[j].date
        /\ firings[j].sent # <<>>

\* C4: a firing that finds no record with day = day_of_year sends nothing,
\* raises nothing, and logs the warning as its last record.
C4_NoMatchNoMessage ==
    \A i \in 1..Len(firings) :
        LET f == firings[i]
        IN  ( /\ Disk(f.disk).status = "ok"
              /\ \A j \in 1..Len(DataOf(f)) : DataOf(f)[j].day # tm_yday(f.date) )
            => /\ f.sent = <<>>
               /\ f.exc = "none"
               /\ f.escaped = "none"
               /\ f.log[Len(f.log)] = Log("WARNING", "no_reading")

\* C4 witness: a firing over a non-empty BibleData without a record for the day.
C4_Witness ==
    \E i \in 1..Len(firings) :
        /\ Disk(firings[i].disk).status = "ok"
        /\ DataOf(firings[i]) # <<>>
        /\ \A j \in 1..Len(DataOf(firings[i])) :
               DataOf(firings[i])[j].day # tm_yday(firings[i].date)

\* C5: a firing uses only the first record of the day: it is the only entry
\* formatted, at most one message is sent, and a message sent is the one
\* formatted from it.
C5_FirstMatchOnly ==
    \A i \in 1..Len(firings) :
        LET f == firings[i]
            first == FirstIndexOf(DataOf(f), tm_yday(f.date))
        IN  Disk(f.disk).status = "ok" =>
                /\ f.match = first
                /\ \A n \in 1..Len(f.formatted) : f.formatted[n] = first
                /\ Len(f.sent) <= 1
                /\ f.sent # <<>> => DeliveredFrom(f, first)

\* C5 witness: a message was sent on a day that has two records, and the two
\* records format differently.
C5_Witness ==
    \E i \in 1..Len(firings) :
        LET f == firings[i]
        IN  /\ f.sent # <<>>
            /\ \E a, b \in 1..Len(DataOf(f)) :
                   /\ a < b
                   /\ DataOf(f)[a].day = tm_yday(f.date)
                   /\ DataOf(f)[b].day = tm_yday(f.date)
                   /\ format_daily_message(DataOf(f)[a], f.date)
                          # format_daily_message(DataOf(f)[b], f.date)

\* C6: every firing works on the file as it is on disk at that moment: it
\* loads iff that file is a JSON array, it selects the first record of the
\* day in that content, and a message sent is formatted from that content.
C6_FreshReadEveryFiring ==
    \A i \in 1..Len(firings) :
        LET f == firings[i]
        IN  /\ f.loaded = (Disk(f.disk).status = "ok")
            /\ f.match = FirstIndexOf(DataOf(f), tm_yday(f.date))
            /\ f.sent # <<>> => DeliveredFrom(f, f.match)

\* C6 witness: the file was edited between two firings, the earlier one
\* loaded the old content and the later one sent a message.
C6_Witness ==
    \E i, j \in 1..Len(firings) :
        /\ i < j
        /\ firings[i].disk # firings[j].disk
        /\ firings[i].loaded
        /\ firings[j].sent # <<>>

\* the config file is missing, is not JSON, or lacks a required field
ConfigError == config.status # "ok" \/ config.fields # FullFields

\* the config is complete and its token is one the login refuses
AuthError == ~ConfigError /\ config.timezone_ok /\ ~config.token_ok

\* the login was refused: client.run raised LoginFailure
LoginRefused == ending = "LoginFailure"

\* no trigger was ever registered and nothing was ever fired
NothingScheduled ==
    /\ jobs = 0
    /\ ~running
    /\ readyCount = 0
    /\ pending = 0
    /\ sending = <<>>
    /\ firings = <<>>

\* C7 as stated: a fatal startup error never leads to Ready, registers no
\* trigger, sends nothing, and has been logged when the process has ended.
C7_FatalStartupLogged ==
    (ConfigError \/ AuthError) =>
        /\ state # "Ready"
        /\ NothingScheduled
        /\ state = "Terminated" => log # <<>>

C7_Safe ==
    /\ ConfigError =>
           /\ state \in {"Disconnected", "Terminated"}
           /\ ~constructed
           /\ NothingScheduled
           /\ log = <<>>
           /\ state = "Terminated" <=> crash \in {"FileNotFoundError", "ValueError", "KeyError"}
    /\ AuthError =>
           /\ state # "Ready"
           /\ NothingScheduled
    /\ LoginRefused =>
           /\ AuthError
           /\ state = "Terminated"
           /\ crash = "none"
           /\ log = <<Log("ERROR", "login_failed")>>

\* C7 amended: a fatal startup error ends the process without Ready, trigger
\* or message, and the process never leaves Terminated; a config error
\* leaves as the uncaught exception of the constructor with nothing logged;
\* a login that is refused (client.run raises LoginFailure) is logged by
\* run() as one error record.
C7_FatalStartupTerminates ==
    /\ []C7_Safe
    /\ [][state = "Terminated" => state' = "Terminated"]_vars
    /\ (ConfigError \/ AuthError) ~> (state = "Terminated")

\* C7 witness: the process has ended on a config without one required field,
\* nothing logged.
C7_Witness ==
    /\ config.status = "ok"
    /\ config.fields # FullFields
    /\ state = "Terminated"
    /\ crash = "KeyError"
    /\ log = <<>>

C8_Order ==
    state' # state =>
        <<state, state'>> \in { <<"Disconnected", "Connecting">>, <<"Connecting", "Ready">>,
                                <<"Disconnected", "Terminated">>, <<"Connecting", "Terminated">>,
                                <<"Ready", "Terminated">> }

C8_Gates ==
    /\ state \in {"Connecting", "Ready"} =>
           constructed /\ ~ConfigError /\ config.timezone_ok
    /\ (jobs > 0 \/ running \/ pending > 0) =>
           readyCount > 0 /\ state \in {"Ready", "Terminated"}
    /\ state \in {"Disconnected", "Connecting"} => firings = <<>> /\ sending = <<>>
    /\ \A i \in 1..Len(firings) : firings[i].at = "Ready"
    /\ \A i \in 1..Len(sending) : sending[i].at = "Ready"

\* C8: the state moves only along Disconnected, Connecting, Ready (or ends);
\* the connection is attempted only with a loaded, valid config; a job is
\* held, the scheduler runs and a firing happens only once on_ready has run.
C8_StartupOrder == []C8_Gates /\ [][C8_Order]_vars

\* C8 witness: the bot is Ready and a firing has run.
C8_Witness == state = "Ready" /\ firings # <<>>

\* ------------------------------------------------------------------------
\* Properties of the Plan Parser
\* ------------------------------------------------------------------------
\* the tokens of the line the last iteration processed
LastParts == split(strip(lines[k - 1]))

Iterated == k > 1 /\ pkind \in {"blank", "header", "short", "record", "error"}

\* C9: a day line with at least 4 tokens and a numeric day token always
\* appends a record.
C9_ParsingTotal ==
    ( /\ Iterated
      /\ LastParts # <<>>
      /\ lower(LastParts[1]) = day_text
      /\ Len(LastParts) >= 4
      /\ int(LastParts[2]).ok )
    => pkind = "record"

\* C10: second_reading of every record, in result and in the value
\* returned, is present and is the sentinel "none" or a dict of book,
\* chapters and verses.
C10_SecondReadingShape ==
    /\ \A i \in 1..Len(result) :
           /\ "second_reading" \in DOMAIN result[i]
           /\ \/ result[i].second_reading = Str(none_text)
              \/ /\ result[i].second_reading.t = "dict"
                 /\ DOMAIN result[i].second_reading = {"t", "book", "chapters", "verses"}
    /\ output # None => output.items = result

\* C10 witness: the value returned holds a record with the sentinel and a
\* record with a reference.
C10_Witness ==
    /\ output # None
    /\ \E i, j \in 1..Len(result) :
           /\ result[i].second_reading = Str(none_text)
           /\ result[j].second_reading.t = "dict"

\* the tokens of a raw line
Tokens(raw) == split(strip(raw))

\* a line of whitespace only
IsBlankLine(raw) == Tokens(raw) = <<>>

\* a non-blank line whose first token lowercased is not "day"
IsHeaderLine(raw) == Tokens(raw) # <<>> /\ lower(Tokens(raw)[1]) # day_text

\* a non-blank line whose first token lowercased is "day"
IsDayLine(raw) == Tokens(raw) # <<>> /\ lower(Tokens(raw)[1]) = day_text

\* the header lines before line j
HeadersBefore(j) == { h \in 1..(j - 1) : IsHeaderLine(lines[h]) }

\* the trimmed text of the most recent header line before line j, the empty
\* string when there is none
PeriodBefore(j) ==
    IF HeadersBefore(j) = {} THEN <<>>
    ELSE LET h == CHOOSE x \in HeadersBefore(j) : \A y \in HeadersBefore(j) : y <= x
         IN  strip(lines[h])

\* the record appended by the last iteration
LastRecord == result[Len(result)]

\* an iteration leaves result as it is or appends one record at its end
AppendsAtMostOne ==
    \/ result' = result
    \/ /\ Len(result') = Len(result) + 1
       /\ SubSeq(result', 1, Len(result)) = result

C11_Appended == pkind = "record" => LastRecord.period = PeriodBefore(k - 1)

C11_Step ==
    k' = k + 1 =>
        /\ AppendsAtMostOne
        /\ (IsBlankLine(lines[k]) \/ IsHeaderLine(lines[k])) => result' = result
        /\ result' # result => result'[Len(result')].period = PeriodBefore(k)

\* C11: the period of a record is the trimmed text of the most recent header
\* line before its day line, the empty string when no header precedes it;
\* records once appended are kept; header and blank lines append no record.
C11_PeriodOfLatestHeader == []C11_Appended /\ [][C11_Step]_vars

\* C11 witness: a record appended after two different header lines carries
\* the text of the second one.
C11_Witness ==
    /\ pkind = "record"
    /\ k = 4
    /\ IsHeaderLine(lines[1])
    /\ IsHeaderLine(lines[2])
    /\ strip(lines[1]) # strip(lines[2])
    /\ LastRecord.period = strip(lines[2])
    /\ LastRecord.period # <<>>

\* the position of the first colon of a token, 0 when it has none
FirstColon(tok) ==
    IF Contains(tok, ":")
    THEN CHOOSE i \in 1..Len(tok) : tok[i] = ":" /\ \A j \in 1..(i - 1) : tok[j] # ":"
    ELSE 0

\* the reference a token stands for: chapters before the colon and verses
\* after it, or the whole token and "all"
ExpectedReading(book, tok) ==
    IF Contains(tok, ":")
    THEN Dict(book, SubSeq(tok, 1, FirstColon(tok) - 1), SubSeq(tok, FirstColon(tok) + 1, Len(tok)))
    ELSE Dict(book, tok, all_text)

\* the n-th (book, reference) pair after "Day X" is present
HasPair(parts, n) == Len(parts) >= 2 * n + 2

\* the reading of the n-th pair
PairReading(parts, n) == ExpectedReading(parts[2 * n + 1], parts[2 * n + 2])

\* the book token of the second pair names a poem book
SecondIsPoem(parts) == HasPair(parts, 2) /\ lower(parts[5]) \in PoemBooks

\* C12: the record of a day line takes first_reading from the first pair; a
\* second pair with a psalm or proverb book is the poem and second_reading is
\* "none"; any other second pair is second_reading and a third pair is the
\* poem; without a pair for it the poem is null, and without a second pair
\* second_reading is "none".
C12_PairAssignment ==
    pkind = "record" =>
        /\ HasPair(LastParts, 1)
        /\ LastRecord.first_reading = PairReading(LastParts, 1)
        /\ SecondIsPoem(LastParts) =>
               /\ LastRecord.poem = PairReading(LastParts, 2)
               /\ LastRecord.second_reading = Str(none_text)
        /\ (HasPair(LastParts, 2) /\ ~SecondIsPoem(LastParts)) =>
               /\ LastRecord.second_reading = PairReading(LastParts, 2)
               /\ HasPair(LastParts, 3) => LastRecord.poem = PairReading(LastParts, 3)
               /\ ~HasPair(LastParts, 3) => LastRecord.poem = None
        /\ ~HasPair(LastParts, 2) =>
               /\ LastRecord.second_reading = Str(none_text)
               /\ LastRecord.poem = None

\* C12 witness: a record built from three pairs follows a record whose second
\* pair, its book not written in lowercase, is the poem.
C12_Witness ==
    /\ pkind = "record"
    /\ Len(result) >= 2
    /\ HasPair(LastParts, 3)
    /\ ~SecondIsPoem(LastParts)
    /\ LastRecord.second_reading.t = "dict"
    /\ LastRecord.poem.t = "dict"
    /\ \E i \in 1..(Len(result) - 1) :
           /\ result[i].second_reading = Str(none_text)
           /\ result[i].poem.t = "dict"
           /\ result[i].poem.book \notin PoemBooks
           /\ lower(result[i].poem.book) \in PoemBooks

\* a day line with fewer than 4 tokens or a day token that is not a number
BadDayLine(raw) ==
    /\ IsDayLine(raw)
    /\ \/ Len(Tokens(raw)) < 4
       \/ ~int(Tokens(raw)[2]).ok

C13_Step ==
    k' = k + 1 =>
        /\ AppendsAtMostOne
        /\ output' = None
        /\ (BadDayLine(lines[k]) \/ pkind' \in {"short", "error"}) => result' = result
        /\ pkind' = "record" <=> result' # result
        /\ result' # result =>
               /\ IsDayLine(lines[k])
               /\ result'[Len(result')].day = int(Tokens(lines[k])[2]).val

C13_Returned ==
    output # None =>
        /\ output.t = "list"
        /\ output.items = result
        /\ k = Len(lines) + 1

\* until the call returns, the loop has a next line to take by one of its
\* branches or is at its end
C13_Continues ==
    output = None =>
        \/ k = Len(lines) + 1
        \/ /\ k <= Len(lines)
           /\ Branch.kind \in {"blank", "header", "short", "record", "error"}

\* C13: a day line with fewer than 4 tokens, with a non-numeric day token or
\* on which an exception is raised appends nothing and the loop goes on to
\* the next line; records are appended only by day lines that were processed,
\* at the end of result, so in file order; until the call has returned a
\* step of it can be taken, and it returns only after the last line, the list
\* of these records.
C13_BadLineDropsOnlyItself ==
    /\ [][C13_Step]_vars
    /\ []C13_Returned
    /\ []C13_Continues

\* C13 witness: the call has returned the records of the first and the third
\* line, the day of the first the greater one; the second line raised.
C13_Witness ==
    /\ output # None
    /\ Len(lines) = 3
    /\ lines[2] = L_five
    /\ Len(output.items) = 2
    /\ output.items[1].day = int(Tokens(lines[1])[2]).val
    /\ output.items[2].day = int(Tokens(lines[3])[2]).val
    /\ output.items[1].day > output.items[2].day

\* chapters and verses of a reading follow the reference token it was built from
FollowsReference(reading, tok) ==
    /\ reading.t = "dict"
    /\ Contains(tok, ":") =>
           /\ reading.chapters = SubSeq(tok, 1, FirstColon(tok) - 1)
           /\ reading.verses = SubSeq(tok, FirstColon(tok) + 1, Len(tok))
    /\ ~Contains(tok, ":") =>
           /\ reading.chapters = tok
           /\ reading.verses = all_text

\* C14: on a day line with a numeric day whose tokens after it pair up, every
\* reference token is parsed into the reading of its pair: chapters before
\* the colon and verses after it, or the whole token and "all".
C14_ReferenceParsing ==
    ( /\ Iterated
      /\ IsDayLine(lines[k - 1])
      /\ Len(LastParts) \in {4, 6, 8}
      /\ int(LastParts[2]).ok )
    => /\ pkind = "record"
       /\ FollowsReference(LastRecord.first_reading, LastParts[4])
       /\ SecondIsPoem(LastParts) => FollowsReference(LastRecord.poem, LastParts[6])
       /\ (HasPair(LastParts, 2) /\ ~SecondIsPoem(LastParts)) =>
              /\ FollowsReference(LastRecord.second_reading, LastParts[6])
              /\ HasPair(LastParts, 3) => FollowsReference(LastRecord.poem, LastParts[8])

\* ------------------------------------------------------------------------
\* Properties of the message format
\* ------------------------------------------------------------------------
\* s begins with p
StartsWith(s, p) == Len(s) >= Len(p) /\ SubSeq(s, 1, Len(p)) = p

\* s ends with p
EndsWith(s, p) == Len(s) >= Len(p) /\ SubSeq(s, Len(s) - Len(p) + 1, Len(s)) = p

\* p occurs in s
Occurs(s, p) == \E i \in 1..(Len(s) - Len(p) + 1) : SubSeq(s, i, i + Len(p) - 1) = p

\* the header and the First Reading section of the message for entry e
HeadSection(e, date) ==
    <<"#", " ", "B", "i", "b", "l", "e", " ", "i", "n", " ", "a", " ", "Y", "e", "a", "r", " ", "D", "a", "y", " ">> \o str_int(e.day) \o <<" ", "(">> \o strftime(date) \o <<")", " ">> \o e.period
    \o <<"\n", "\n", "#", "#", " ", "R", "e", "a", "d", "i", "n", "g", "s", "\n", "\n", "#", "#", "#", " ", "F", "i", "r", "s", "t", " ", "R", "e", "a", "d", "i", "n", "g", "\n">>
    \o e.first_reading.book \o <<" ", "C", "h", "a", "p", "t", "e", "r", "(", "s", ")", " ">> \o e.first_reading.chapters

\* the heading of the Second Reading section
SecondHeading ==
    <<"\n", "\n", "#", "#", "#", " ", "S", "e", "c", "o", "n", "d", " ", "R", "e", "a", "d", "i", "n", "g", "\n">>

\* the Poem section of the message for entry e
PoemSection(e) ==
    <<"\n", "\n", "#", "#", "#", " ", "P", "o", "e", "m", "\n">> \o e.poem.book \o <<" ">> \o e.poem.chapters

\* the entry the firing f gave to the formatter
EntryOf(f) == DataOf(f)[f.match]

\* C15: for every record given to it, format_daily_message returns a
\* message that starts with the header and the First Reading section, holds a
\* Second Reading section iff second_reading is not "none", and ends with the
\* Poem section of poem.book and poem.chapters.
C15_MessageStructure ==
    \A i \in 1..Len(firings) :
        LET f == firings[i]
        IN  f.match # 0 =>
                /\ format_daily_message(EntryOf(f), f.date).ok
                /\ StartsWith(format_daily_message(EntryOf(f), f.date).val, HeadSection(EntryOf(f), f.date))
                /\ Occurs(format_daily_message(EntryOf(f), f.date).val, SecondHeading)
                       <=> EntryOf(f).second_reading # Str(none_text)
                /\ EndsWith(format_daily_message(EntryOf(f), f.date).val, PoemSection(EntryOf(f)))

\* the year has a 29th of February
LeapYear(y) == (y % 4 = 0 /\ y % 100 # 0) \/ y % 400 = 0

\* the calendar days of the year of date up to date
DaysUpTo(date) ==
    { md \in (1..12) \X (1..31) :
          /\ \/ md[1] < date.month
             \/ md[1] = date.month /\ md[2] <= date.day
          /\ md[1] \in {4, 6, 9, 11} => md[2] <= 30
          /\ md[1] = 2 => md[2] <= (IF LeapYear(date.year) THEN 29 ELSE 28) }

\* the ordinal of date in its year: 1 on January 1, 365 or 366 on December 31
DayOfYear(date) == Cardinality(DaysUpTo(date))

\* C16: a firing looks for the day-of-year of its local date; the record it
\* formats has that day; a message sent is the one message formatted from
\* that record, and is the message of no record of another day.
C16_SentRecordIsTodays ==
    \A i \in 1..Len(firings) :
        LET f == firings[i]
        IN  /\ f.loaded => f.day_of_year = DayOfYear(f.date)
            /\ f.match # 0 => EntryOf(f).day = DayOfYear(f.date)
            /\ f.sent # <<>> =>
                   /\ Len(f.sent) = 1
                   /\ f.match # 0
                   /\ format_daily_message(EntryOf(f), f.date) = Ok(f.sent[1])
                   /\ \A j \in 1..Len(DataOf(f)) :
                          DataOf(f)[j].day # DayOfYear(f.date) =>
                              format_daily_message(DataOf(f)[j], f.date) # Ok(f.sent[1])

\* C16 witness: a firing on December 31 of a leap year looked for day 366,
\* and the firing of the next day sent the record of day 1 out of a file that
\* holds records of other days.
C16_Witness ==
    \E i, j \in 1..Len(firings) :
        /\ i < j
        /\ firings[i].date = [year |-> 2024, month |-> 12, day |-> 31]
        /\ firings[i].loaded
        /\ firings[i].day_of_year = 366
        /\ firings[j].sent # <<>>
        /\ EntryOf(firings[j]).day = 1
        /\ \E n \in 1..Len(DataOf(firings[j])) : DataOf(firings[j])[n].day # 1

\* a value of reference shape: a dict of book, chapters and verses
IsReference(v) ==
    /\ v.t = "dict"
    /\ DOMAIN v = {"t", "book", "chapters", "verses"}

C17_Records ==
    \A i \in 1..Len(result) :
        /\ result[i].day \in Int
        /\ result[i].first_reading # None
        /\ IsReference(result[i].first_reading)

C17_Step ==
    (k' = k + 1 /\ Len(Tokens(lines[k])) < 4) => result' = result

\* C17: every record of result, and so of the list returned, has an integer
\* day and a first_reading that is not null and is a dict of book, chapters
\* and verses; the iteration over a line of fewer than 4 tokens appends no
\* record.
C17_RecordShape ==
    /\ []C17_Records
    /\ [](output # None => output.items = result /\ C17_Records)
    /\ [][C17_Step]_vars

\* C17 witness: the list returned holds a record of a line of exactly 4
\* tokens, and a day line of 3 tokens before it gave none.
C17_Witness ==
    /\ output # None
    /\ Len(lines) >= 2
    /\ IsDayLine(lines[Len(lines) - 1])
    /\ Len(Tokens(lines[Len(lines) - 1])) = 3
    /\ Len(Tokens(lines[Len(lines)])) = 4
    /\ Len(output.items) = 1
    /\ output.items[1].day = int(Tokens(lines[Len(lines)])[2]).val
    /\ IsReference(output.items[1].first_reading)

C18_Step ==
    k' = k + 1 =>
        /\ IsDayLine(lines[k]) => current_period' = current_period
        /\ current_period' # current_period => IsHeaderLine(lines[k])

\* C18: the iteration over a day line leaves current_period as it is,
\* whether it appends a record, skips the line or drops it; only a header
\* line changes it, so that current_period is at every point the text of the
\* latest header line taken so far.
C18_DayLineKeepsPeriod ==
    /\ [][C18_Step]_vars
    /\ [](current_period = PeriodBefore(k))

\* C18 witness: after a header line and the skipped line "Day of Rest", the
\* record of the third line carries the period of the header.
C18_Witness ==
    /\ pkind = "record"
    /\ k = 4
    /\ IsHeaderLine(lines[1])
    /\ lines[2] = L_rest
    /\ current_period = strip(lines[1])
    /\ LastRecord.period = strip(lines[1])

====
